---- MODULE Spec2Model ----
(***************************************************************************)
(* Model of the cloudinary client (package cloudinary): public identifier  *)
(* derivation, request signing, Upload (single resource and directory      *)
(* walk), Delete, Rename and the configuration setters.                    *)
(*                                                                         *)
(* Go strings are sequences of one-character strings, so that LastIndex,   *)
(* filepath.Ext, TrimPrefix ... are computed as the code computes them.    *)
(* Fixed keywords of a canonical string ("public_id=", ...), the timestamp *)
(* and the secret are single elements of such a sequence.                  *)
(***************************************************************************)
EXTENDS Integers, Sequences, FiniteSets, TLC

VARIABLES simulate, keepFilesPattern, uploadResType, basePathDir, prependPath,
          pc, op, queue, invoked, faults, sent, ncalls, ret, callers

vars == <<simulate, keepFilesPattern, uploadResType, basePathDir, prependPath,
          pc, op, queue, invoked, faults, sent, ncalls, ret, callers>>

\* Bound: new operations are invoked while fewer than MaxCalls transport
\* calls have been recorded.
MaxCalls == 1

------------------------------------------------------------------------------
\* Go string primitives (0-based indices, as in the source)

PathSeparator == "/"

Empty == <<>>

\* s[from:to]
Slice(s, from, to) == SubSeq(s, from + 1, to)

\* strings.LastIndex(s, sep) for a one-character sep; -1 when absent
LastIndex(s, sep) ==
    LET I == {i \in 1..Len(s) : s[i] = sep}
    IN IF I = {} THEN -1 ELSE (CHOOSE i \in I : \A j \in I : j <= i) - 1

HasPrefix(s, p) == Len(p) <= Len(s) /\ SubSeq(s, 1, Len(p)) = p

HasSuffix(s, p) == Len(p) <= Len(s) /\ SubSeq(s, Len(s) - Len(p) + 1, Len(s)) = p

TrimPrefix(s, p) == IF HasPrefix(s, p) THEN SubSeq(s, Len(p) + 1, Len(s)) ELSE s

\* strings.Index(s, sub); -1 when absent
Index(s, sub) ==
    LET I == {i \in 0..(Len(s) - Len(sub)) : SubSeq(s, i + 1, i + Len(sub)) = sub}
    IN IF I = {} THEN -1 ELSE CHOOSE i \in I : \A j \in I : i <= j

Contains(s, sub) == Index(s, sub) # -1

\* strings.Replace(s, old, new, 1)
ReplaceFirst(s, old, new) ==
    LET i == Index(s, old)
    IN IF i = -1 THEN s
       ELSE Slice(s, 0, i) \o new \o Slice(s, i + Len(old), Len(s))

\* strings.Replace(s, old, new, -1) for a one-character old and new
ReplaceAllChar(s, old, new) == [i \in 1..Len(s) |-> IF s[i] = old THEN new ELSE s[i]]

IsSpace(c) == c = " "

\* strings.TrimSpace
TrimSpace(s) ==
    LET I == {i \in 1..Len(s) : ~IsSpace(s[i])}
    IN IF I = {} THEN Empty
       ELSE SubSeq(s, CHOOSE i \in I : \A j \in I : i <= j,
                      CHOOSE i \in I : \A j \in I : j <= i)

\* filepath.Ext: the suffix beginning at the final dot of the final element
Ext(path) ==
    LET I == {i \in 1..Len(path) :
                 /\ path[i] = "."
                 /\ \A j \in i..Len(path) : path[j] # PathSeparator}
    IN IF I = {} THEN Empty
       ELSE SubSeq(path, CHOOSE i \in I : \A j \in I : j <= i, Len(path))

RECURSIVE SplitAcc(_, _, _)
SplitAcc(s, cur, acc) ==
    IF s = <<>> THEN Append(acc, cur)
    ELSE IF Head(s) = PathSeparator
         THEN SplitAcc(Tail(s), <<>>, Append(acc, cur))
         ELSE SplitAcc(Tail(s), Append(cur, Head(s)), acc)

RECURSIVE CleanAcc(_, _, _)
CleanAcc(segs, out, rooted) ==
    IF segs = <<>> THEN out
    ELSE LET h == Head(segs) IN
         IF h = <<>> \/ h = <<".">> THEN CleanAcc(Tail(segs), out, rooted)
         ELSE IF h = <<".", ".">>
              THEN IF Len(out) > 0 /\ out[Len(out)] # <<".", ".">>
                   THEN CleanAcc(Tail(segs), SubSeq(out, 1, Len(out) - 1), rooted)
                   ELSE IF rooted THEN CleanAcc(Tail(segs), out, rooted)
                        ELSE CleanAcc(Tail(segs), Append(out, h), rooted)
              ELSE CleanAcc(Tail(segs), Append(out, h), rooted)

RECURSIVE JoinSegs(_)
JoinSegs(segs) ==
    IF segs = <<>> THEN Empty
    ELSE IF Len(segs) = 1 THEN Head(segs)
         ELSE Head(segs) \o <<PathSeparator>> \o JoinSegs(Tail(segs))

\* filepath.Clean
Clean(path) ==
    IF path = Empty THEN <<".">>
    ELSE LET rooted == Head(path) = PathSeparator
             body   == JoinSegs(CleanAcc(SplitAcc(path, <<>>, <<>>), <<>>, rooted))
         IN IF rooted THEN <<PathSeparator>> \o body
            ELSE IF body = Empty THEN <<".">> ELSE body

\* filepath.Join(dir, name)
Join(dir, name) == Clean(dir \o <<PathSeparator>> \o name)

\* the working directory of the process
Cwd == <<"/", "w">>

\* filepath.Abs (Getwd succeeds)
Abs(path) ==
    IF path # Empty /\ Head(path) = PathSeparator THEN Clean(path)
    ELSE Join(Cwd, path)

------------------------------------------------------------------------------
\* Program constants

ImageType == 0
PdfType == 1
VideoType == 2
RawType == 3

ResourceTypes == {ImageType, PdfType, VideoType, RawType}

imageType == "image"
videoType == "video"
pdfType == "image"
rawType == "raw"

ApiKey == <<"key">>
ApiSecret == <<"secret">>

\* a form field that is not part of a request
NoField == <<"<absent>">>

\* sha1 + "%x": an injective digest (no collisions), tagged so that it is
\* never equal to its input
Sha1Hex(part) == <<"sha1:">> \o part

------------------------------------------------------------------------------
\* Public identifier derivation

\* EnsureTrailingSlash
EnsureTrailingSlash(dirname) ==
    IF ~HasSuffix(dirname, <<"/">>) THEN dirname \o <<"/">> ELSE dirname

\* the value of an expression whose evaluation panics (slice out of range)
Panic == <<"<panic>">>

\* the shared tail of both naming functions: normalise the prepend path,
\* strip the extension of name, use forward slashes
PrependAndStrip(prepend, name) ==
    LET pp == IF prepend # Empty
              THEN EnsureTrailingSlash(IF prepend[1] = PathSeparator
                                       THEN Slice(prepend, 1, Len(prepend))
                                       ELSE prepend)
              ELSE prepend
        r  == pp \o Slice(name, 0, Len(name) - Len(Ext(name)))
    IN ReplaceAllChar(r, PathSeparator, "/")

\* CleanExtensionNameWithPrepend(path, prependPath)
CleanExtensionNameWithPrepend(path0, prepend0) ==
    LET path    == Abs(TrimSpace(path0))
        prepend == TrimSpace(prepend0)
        idx     == LastIndex(path, PathSeparator)
    IN IF idx = -1 THEN Panic   \* path[:idx] with idx = -1
       ELSE PrependAndStrip(prepend, Slice(path, idx + 1, Len(path)))

\* cleanAssetName(path, basePath, prependPath); filepath.Abs succeeds, so
\* basePath is never empty after it (Abs("") is the working directory)
cleanAssetName(path0, basePath0, prepend0) ==
    LET path     == Abs(TrimSpace(path0))
        basePath == Abs(TrimSpace(basePath0))
        prepend  == TrimSpace(prepend0)
        idx1     == LastIndex(path, PathSeparator)
        idx      == IF idx1 # -1
                    THEN LastIndex(Slice(path, 0, idx1), PathSeparator)
                    ELSE idx1
        rel      == ReplaceFirst(path, basePath, Empty)
    IN IF basePath = Empty
       THEN PrependAndStrip(prepend, Slice(path, idx + 1, Len(path)))
       ELSE IF rel = Empty THEN Panic   \* name[0] of an empty string
            ELSE PrependAndStrip(prepend,
                     IF rel[1] = PathSeparator THEN Slice(rel, 1, Len(rel)) ELSE rel)

\* setPublicID(prependPath, fileName): the last two segments of fileName
setPublicID(prepend, fileName) ==
    LET idx1 == LastIndex(fileName, PathSeparator)
        idx  == IF idx1 # -1
                THEN LastIndex(Slice(fileName, 0, idx1), PathSeparator)
                ELSE idx1
    IN Slice(fileName, idx + 1, Len(fileName))

------------------------------------------------------------------------------
\* The local file system the client reads: /t/c/{d.c,l.p}, /t/i/l.p, /w/r.p

DirT == <<"/", "t">>
DirTC == <<"/", "t", "/", "c">>
DirTI == <<"/", "t", "/", "i">>
FileTCD == <<"/", "t", "/", "c", "/", "d", ".", "c">>
FileTCL == <<"/", "t", "/", "c", "/", "l", ".", "p">>
FileTIL == <<"/", "t", "/", "i", "/", "l", ".", "p">>
FileWR == <<"/", "w", "/", "r", ".", "p">>
RelR == <<"r", ".", "p">>
Missing == <<"/", "q">>

Dirs == {DirT, DirTC, DirTI, Cwd}
Files == {FileTCD, FileTCL, FileTIL, FileWR}

\* readDirNames: the sorted names of a directory's entries
DirNames(dir) ==
    IF dir = DirT THEN << <<"c">>, <<"i">> >>
    ELSE IF dir = DirTC THEN << <<"d", ".", "c">>, <<"l", ".", "p">> >>
    ELSE IF dir = DirTI THEN << <<"l", ".", "p">> >>
    ELSE IF dir = Cwd THEN << <<"r", ".", "p">> >>
    ELSE << >>

\* os.Stat / os.Lstat (no symbolic links): "dir", "file" or "err"
Stat(path) ==
    LET a == Abs(path)
    IN IF a \in Dirs THEN "dir" ELSE IF a \in Files THEN "file" ELSE "err"

------------------------------------------------------------------------------
\* Keep pattern: the fragment of regexp syntax the inputs use, an optional
\* leading ^ followed by literal characters; "(" alone does not compile

PatAnchored == <<"^", "n", "/">>
PatLiteral == <<"l">>
PatBlank == <<" ", " ">>
PatInvalid == <<"(">>

Patterns == {PatAnchored, PatLiteral, PatBlank, PatInvalid}

\* keepFilesPattern == nil
NoPattern == <<"<nil>">>

\* regexp.Compile succeeds
CompileOk(pattern) == \A i \in 1..Len(pattern) : pattern[i] \notin {"(", ")"}

\* (*Regexp).MatchString
MatchString(re, str) ==
    IF re # Empty /\ Head(re) = "^" THEN HasPrefix(str, Tail(re))
    ELSE Contains(str, re)

------------------------------------------------------------------------------
\* Requests handed to the transport (http.PostForm, http.DefaultClient.Do)

Timestamps == {<<"1700000000">>}

\* outcomes the environment chooses for one per-file upload / one POST
Outcomes == {"ok", "iofail", "neterr", "status"}

\* the public id the service assigns when none is sent
RandomId == <<"z", "9">>

Result(reqs, val, err) == [reqs |-> reqs, val |-> val, err |-> err]

\* the resource-type segment substituted into the upload URI
UploadToken(rtype) ==
    IF rtype = PdfType THEN pdfType
    ELSE IF rtype = VideoType THEN videoType
    ELSE IF rtype = RawType THEN rawType
    ELSE imageType

\* the resource-type segment of the destroy and rename URLs
AdminToken(rtype) == IF rtype = RawType THEN rawType ELSE imageType

\* uploadFile, the multipart form: public_id, api_key, timestamp, signature, file
uploadForm(fullPath, randomPublicId, timestamp) ==
    LET publicId == IF ~randomPublicId
                    THEN CleanExtensionNameWithPrepend(fullPath, prependPath)
                    ELSE NoField
        part0    == <<"timestamp=">> \o timestamp \o ApiSecret
        part     == IF ~randomPublicId
                    THEN <<"public_id=">> \o publicId \o <<"&">> \o part0
                    ELSE part0
    IN [kind |-> "upload", rt |-> UploadToken(uploadResType),
        public_id |-> publicId, from_public_id |-> NoField, to_public_id |-> NoField,
        api_key |-> ApiKey, timestamp |-> timestamp,
        signature |-> Sha1Hex(part), file |-> fullPath]

\* uploadFile, from http.NewRequest to the end
uploadSend(form, fullPath, outcome) ==
    IF outcome = "neterr" THEN Result(<<form>>, fullPath, "net")
    ELSE IF outcome = "status" THEN Result(<<form>>, fullPath, "Request error")
    ELSE Result(<<form>>,
                IF form.public_id = NoField THEN RandomId ELSE form.public_id,
                "nil")

\* reading the content fails: data given and ReadAll fails, or no data and
\* os.Open / io.Copy fails
ReadFails(fullPath, data, outcome) ==
    \/ outcome = "iofail"
    \/ ~data /\ Stat(fullPath) # "file"

\* uploadFile without its simulate check
uploadFileNoSimulate(fullPath, data, randomPublicId, timestamp, outcome) ==
    IF ReadFails(fullPath, data, outcome) THEN Result(<<>>, fullPath, "io")
    ELSE uploadSend(uploadForm(fullPath, randomPublicId, timestamp), fullPath, outcome)

\* uploadFile(fullPath, data, randomPublicId)
uploadFile(fullPath, data, randomPublicId, timestamp, outcome) ==
    IF ReadFails(fullPath, data, outcome) THEN Result(<<>>, fullPath, "io")
    ELSE IF simulate THEN Result(<<>>, fullPath, "nil")
    ELSE uploadSend(uploadForm(fullPath, randomPublicId, timestamp), fullPath, outcome)

\* walkIt with the directory check left out
walkItNoDirCheck(path, info, err, timestamp, outcome) ==
    [called |-> TRUE, r |-> uploadFile(path, FALSE, FALSE, timestamp, outcome)]

\* walkIt(path, info, err): err is not looked at
walkIt(path, info, err, timestamp, outcome) ==
    IF info = "dir" THEN [called |-> FALSE, r |-> Result(<<>>, Empty, "nil")]
    ELSE [called |-> TRUE, r |-> uploadFile(path, FALSE, FALSE, timestamp, outcome)]

\* Delete, the keep-pattern test inverted
DeleteProtectedInverted(id) ==
    keepFilesPattern = NoPattern \/ ~MatchString(keepFilesPattern, id)

\* Delete, the keep-pattern test
DeleteProtected(id) ==
    keepFilesPattern # NoPattern /\ MatchString(keepFilesPattern, id)

\* Delete, the destroy form
deleteForm(publicId, prepend, rtype, timestamp) ==
    LET part == <<"public_id=">> \o (prepend \o publicId) \o <<"&">>
                \o <<"timestamp=">> \o timestamp \o ApiSecret
    IN [kind |-> "destroy", rt |-> AdminToken(rtype),
        public_id |-> prepend \o publicId,
        from_public_id |-> NoField, to_public_id |-> NoField,
        api_key |-> ApiKey, timestamp |-> timestamp,
        signature |-> Sha1Hex(part), file |-> NoField]

\* Rename, the rename form
renameForm(publicID0, toPublicID0, prepend, rtype, timestamp) ==
    LET publicID   == TrimPrefix(publicID0, <<"/">>)
        toPublicID == TrimPrefix(toPublicID0, <<"/">>)
        part == <<"from_public_id=">> \o (prepend \o publicID) \o <<"&">>
                \o <<"timestamp=">> \o timestamp \o <<"&">>
                \o <<"to_public_id=">> \o toPublicID \o ApiSecret
    IN [kind |-> "rename", rt |-> AdminToken(rtype),
        public_id |-> NoField,
        from_public_id |-> prepend \o publicID,
        to_public_id |-> prepend \o toPublicID,
        api_key |-> ApiKey, timestamp |-> timestamp,
        signature |-> Sha1Hex(part), file |-> NoField]

------------------------------------------------------------------------------
\* Inputs of the operations

Paths == {DirT, FileTIL, FileTCD, RelR, Missing}
UploadPrepends == {Empty, <<"/", "n">>}
Prepends == {Empty, <<"n", "/">>}
PublicIds == {<<"l">>, <<"/", "k">>}
AdminTypes == {ImageType, RawType}

\* the operation invoked last, with its arguments
OpRec(name) ==
    [name |-> name, path |-> Empty, data |-> FALSE, prepend |-> Empty,
     random |-> FALSE, rtype |-> ImageType, publicId |-> Empty,
     toPublicId |-> Empty, flag |-> FALSE]

NoRet == [val |-> Empty, err |-> "pending"]

\* goroutines that call Upload on the one client at the same time
Callers == {"a", "b"}

\* a goroutine that is not inside Upload: its position, the arguments of
\* its call, the entries its walk has still to visit, the file and the form
\* uploadFile is working on, the requests it made and what it returned
IdleCaller ==
    [pc |-> "idle", args |-> OpRec("none"), dir |-> FALSE, queue |-> <<>>,
     cur |-> Empty, form |-> <<>>, reqs |-> <<>>, ret |-> NoRet]

\* the client returned by service.Get
Init ==
    /\ callers = [c \in Callers |-> IdleCaller]
    /\ simulate = FALSE
    /\ keepFilesPattern = NoPattern
    /\ uploadResType = ImageType
    /\ basePathDir = Empty
    /\ prependPath = Empty
    /\ pc = "idle"
    /\ op = OpRec("Get")
    /\ queue = <<>>
    /\ invoked = <<>>
    /\ faults = <<>>
    /\ sent = <<>>
    /\ ncalls = 0
    /\ ret = [val |-> Empty, err |-> "nil"]

\* a caller may invoke an operation: none is in progress
CanInvoke == pc = "idle" /\ ncalls < MaxCalls

\* Simulate(v)
Simulate ==
    /\ UNCHANGED callers
    /\ CanInvoke
    /\ \E v \in BOOLEAN :
          /\ simulate' = v
          /\ op' = [OpRec("Simulate") EXCEPT !.flag = v]
    /\ ret' = [val |-> Empty, err |-> "nil"]
    /\ invoked' = <<>> /\ faults' = <<>> /\ sent' = <<>>
    /\ UNCHANGED <<keepFilesPattern, uploadResType, basePathDir, prependPath,
                   pc, queue, ncalls>>

\* KeepFiles(pattern)
KeepFiles ==
    /\ UNCHANGED callers
    /\ CanInvoke
    /\ \E pattern \in Patterns :
          /\ op' = [OpRec("KeepFiles") EXCEPT !.publicId = pattern]
          /\ IF Len(TrimSpace(pattern)) = 0
             THEN /\ ret' = [val |-> Empty, err |-> "nil"]
                  /\ UNCHANGED keepFilesPattern
             ELSE IF ~CompileOk(pattern)
                  THEN /\ ret' = [val |-> Empty, err |-> "compile"]
                       /\ UNCHANGED keepFilesPattern
                  ELSE /\ keepFilesPattern' = pattern
                       /\ ret' = [val |-> Empty, err |-> "nil"]
    /\ invoked' = <<>> /\ faults' = <<>> /\ sent' = <<>>
    /\ UNCHANGED <<simulate, uploadResType, basePathDir, prependPath,
                   pc, queue, ncalls>>

\* Upload, up to the choice between a single resource and a directory walk
Upload ==
    /\ UNCHANGED callers
    /\ CanInvoke
    /\ \E path \in Paths, data \in BOOLEAN, prepend \in UploadPrepends,
          randomPublicId \in BOOLEAN, rtype \in ResourceTypes :
          /\ op' = [OpRec("Upload") EXCEPT !.path = path, !.data = data,
                       !.prepend = prepend, !.random = randomPublicId,
                       !.rtype = rtype]
          /\ uploadResType' = rtype
          /\ prependPath' = prepend
          /\ IF data THEN
                /\ basePathDir' = Empty
                /\ pc' = "single" /\ queue' = <<>> /\ ret' = NoRet
             ELSE IF Stat(path) = "err" THEN
                /\ basePathDir' = Empty
                /\ pc' = "idle" /\ queue' = <<>>
                /\ ret' = [val |-> path, err |-> "stat"]
             ELSE IF Stat(path) = "dir" THEN
                /\ basePathDir' = path
                /\ pc' = "walk" /\ queue' = <<path>> /\ ret' = NoRet
             ELSE
                /\ basePathDir' = Empty
                /\ pc' = "single" /\ queue' = <<>> /\ ret' = NoRet
    /\ invoked' = <<>> /\ faults' = <<>> /\ sent' = <<>>
    /\ UNCHANGED <<simulate, keepFilesPattern, ncalls>>

\* Upload, single-resource mode: return s.uploadFile(path, data, randomPublicId)
UploadSingle ==
    /\ UNCHANGED callers
    /\ pc = "single"
    /\ \E timestamp \in Timestamps, outcome \in Outcomes :
          LET r == uploadFile(op.path, op.data, op.random, timestamp, outcome)
          IN /\ invoked' = <<op.path>>
             /\ sent' = r.reqs
             /\ ncalls' = ncalls + Len(r.reqs)
             /\ faults' = IF r.err # "nil"
                          THEN <<[kind |-> "upload", path |-> op.path, err |-> r.err]>>
                          ELSE <<>>
             /\ ret' = [val |-> r.val, err |-> r.err]
    /\ pc' = "idle"
    /\ UNCHANGED <<simulate, keepFilesPattern, uploadResType, basePathDir,
                   prependPath, op, queue>>

\* the entries of a directory as filepath.Walk passes them on
Children(dir) ==
    LET names == DirNames(Abs(dir))
    IN [i \in 1..Len(names) |-> Join(dir, names[i])]

\* Upload, directory mode: filepath.Walk(path, s.walkIt), one entry per step
WalkStep ==
    /\ UNCHANGED callers
    /\ pc = "walk"
    /\ queue # <<>>
    /\ \E timestamp \in Timestamps, outcome \in Outcomes, listErr \in BOOLEAN :
          LET path == Head(queue)
              info == Stat(path)
              err  == info = "dir" /\ listErr
              w    == walkIt(path, info, err, timestamp, outcome)
              q    == IF w.r.err # "nil" THEN <<>>
                      ELSE IF info = "dir" /\ ~err THEN Children(path) \o Tail(queue)
                      ELSE Tail(queue)
          IN /\ info = "file" => ~listErr
             /\ info = "dir" => outcome = "ok"
             /\ queue' = q
             /\ invoked' = IF w.called THEN Append(invoked, path) ELSE invoked
             /\ sent' = sent \o w.r.reqs
             /\ ncalls' = ncalls + Len(w.r.reqs)
             /\ faults' = faults
                   \o (IF err THEN <<[kind |-> "list", path |-> path, err |-> "readdir"]>>
                       ELSE <<>>)
                   \o (IF w.r.err # "nil"
                       THEN <<[kind |-> "upload", path |-> path, err |-> w.r.err]>>
                       ELSE <<>>)
             /\ IF q = <<>>
                THEN /\ pc' = "idle"
                     /\ ret' = [val |-> op.path, err |-> w.r.err]
                ELSE /\ pc' = "walk"
                     /\ UNCHANGED ret
    /\ UNCHANGED <<simulate, keepFilesPattern, uploadResType, basePathDir,
                   prependPath, op>>

\* Delete(publicId, prepend, rtype)
Delete ==
    /\ UNCHANGED callers
    /\ CanInvoke
    /\ \E publicId \in PublicIds, prepend \in Prepends, rtype \in AdminTypes,
          timestamp \in Timestamps, outcome \in {"ok", "neterr", "status"} :
          LET form == deleteForm(publicId, prepend, rtype, timestamp)
              r == IF DeleteProtected(prepend \o publicId) THEN Result(<<>>, Empty, "nil")
                   ELSE IF simulate THEN Result(<<>>, Empty, "nil")
                   ELSE IF outcome = "ok" THEN Result(<<form>>, Empty, "nil")
                   ELSE Result(<<form>>, Empty, outcome)
          IN /\ op' = [OpRec("Delete") EXCEPT !.publicId = publicId,
                          !.prepend = prepend, !.rtype = rtype]
             /\ sent' = r.reqs
             /\ ncalls' = ncalls + Len(r.reqs)
             /\ ret' = [val |-> Empty, err |-> r.err]
    /\ invoked' = <<>> /\ faults' = <<>>
    /\ UNCHANGED <<simulate, keepFilesPattern, uploadResType, basePathDir,
                   prependPath, pc, queue>>

\* Rename(publicID, toPublicID, prepend, rtype)
Rename ==
    /\ UNCHANGED callers
    /\ CanInvoke
    /\ \E publicID \in PublicIds, toPublicID \in PublicIds, prepend \in Prepends,
          rtype \in AdminTypes, timestamp \in Timestamps,
          outcome \in {"ok", "neterr", "status"} :
          LET form == renameForm(publicID, toPublicID, prepend, rtype, timestamp)
          IN /\ op' = [OpRec("Rename") EXCEPT !.publicId = publicID,
                          !.toPublicId = toPublicID, !.prepend = prepend,
                          !.rtype = rtype]
             /\ sent' = <<form>>
             /\ ncalls' = ncalls + 1
             /\ ret' = [val |-> Empty, err |-> IF outcome = "ok" THEN "nil" ELSE outcome]
    /\ invoked' = <<>> /\ faults' = <<>>
    /\ UNCHANGED <<simulate, keepFilesPattern, uploadResType, basePathDir,
                   prependPath, pc, queue>>

Next ==
    \/ Simulate
    \/ KeepFiles
    \/ Upload
    \/ UploadSingle
    \/ WalkStep
    \/ Delete
    \/ Rename

Spec == Init /\ [][Next]_vars

------------------------------------------------------------------------------
\* Upload called by several goroutines on the same client.  The client has
\* no lock: a step is one access to a field of the client (a write of
\* Upload, a read of uploadFile) with the local computation that follows
\* it.  Each read sees the value written last, whoever wrote it.

ConcPaths == {FileTIL, DirTI}
ConcTypes == {ImageType, VideoType, RawType}
ConcOutcomes == {"ok", "status"}

\* what only the sequential caller of Spec uses
seqvars == <<pc, op, queue, invoked, faults, sent, ret>>

SetCaller(c, rec) == callers' = [callers EXCEPT ![c] = rec]

\* Upload returns
Return(c, val, err) == [callers[c] EXCEPT !.pc = "idle",
                                         !.ret = [val |-> val, err |-> err]]

\* Upload is entered: s.uploadResType = rtype
CUploadEnter(c) ==
    /\ callers[c].pc = "idle"
    /\ ncalls < MaxCalls
    /\ \E path \in ConcPaths, data \in BOOLEAN, prepend \in UploadPrepends,
          randomPublicId \in BOOLEAN, rtype \in ConcTypes :
          /\ uploadResType' = rtype
          /\ SetCaller(c, [IdleCaller EXCEPT !.pc = "l187",
                 !.args = [OpRec("Upload") EXCEPT !.path = path, !.data = data,
                              !.prepend = prepend, !.random = randomPublicId,
                              !.rtype = rtype]])
    /\ UNCHANGED <<simulate, keepFilesPattern, basePathDir, prependPath, ncalls>>
    /\ UNCHANGED seqvars

\* s.basePathDir = ""
CSetBase(c) ==
    /\ callers[c].pc = "l187"
    /\ basePathDir' = Empty
    /\ SetCaller(c, [callers[c] EXCEPT !.pc = "l188"])
    /\ UNCHANGED <<simulate, keepFilesPattern, uploadResType, prependPath, ncalls>>
    /\ UNCHANGED seqvars

\* s.prependPath = prepend, then os.Stat and the choice of the mode
CSetPrepend(c) ==
    /\ callers[c].pc = "l188"
    /\ prependPath' = callers[c].args.prepend
    /\ LET a == callers[c].args
       IN IF a.data \/ Stat(a.path) = "file"
          THEN SetCaller(c, [callers[c] EXCEPT !.pc = "form", !.cur = a.path])
          ELSE IF Stat(a.path) = "err"
               THEN SetCaller(c, Return(c, a.path, "stat"))
               ELSE SetCaller(c, [callers[c] EXCEPT !.pc = "l196"])
    /\ UNCHANGED <<simulate, keepFilesPattern, uploadResType, basePathDir, ncalls>>
    /\ UNCHANGED seqvars

\* s.basePathDir = path, then filepath.Walk starts
CSetBaseDir(c) ==
    /\ callers[c].pc = "l196"
    /\ basePathDir' = callers[c].args.path
    /\ SetCaller(c, [callers[c] EXCEPT !.pc = "walk", !.dir = TRUE,
                                       !.queue = <<callers[c].args.path>>])
    /\ UNCHANGED <<simulate, keepFilesPattern, uploadResType, prependPath, ncalls>>
    /\ UNCHANGED seqvars

\* filepath.Walk passes one entry to walkIt: a directory is left alone and
\* its entries come next, a file goes to uploadFile(path, nil, false)
CWalk(c) ==
    /\ callers[c].pc = "walk"
    /\ callers[c].queue # <<>>
    /\ LET path == Head(callers[c].queue)
           q    == Children(path) \o Tail(callers[c].queue)
       IN IF Stat(path) = "dir"
          THEN IF q = <<>>
               THEN SetCaller(c, Return(c, callers[c].args.path, "nil"))
               ELSE SetCaller(c, [callers[c] EXCEPT !.queue = q])
          ELSE SetCaller(c, [callers[c] EXCEPT !.pc = "form", !.cur = path,
                                !.queue = Tail(callers[c].queue)])
    /\ UNCHANGED <<simulate, keepFilesPattern, uploadResType, basePathDir,
                   prependPath, ncalls>>
    /\ UNCHANGED seqvars

\* uploadFile reads s.prependPath and writes the form fields
CForm(c) ==
    /\ callers[c].pc = "form"
    /\ \E timestamp \in Timestamps :
          LET rnd == IF callers[c].dir THEN FALSE ELSE callers[c].args.random
          IN SetCaller(c, [callers[c] EXCEPT !.pc = "send",
                !.form = <<uploadForm(callers[c].cur, rnd, timestamp)>>])
    /\ UNCHANGED <<simulate, keepFilesPattern, uploadResType, basePathDir,
                   prependPath, ncalls>>
    /\ UNCHANGED seqvars

\* uploadFile reads the content, s.simulate and s.uploadResType, sends the
\* request and returns; a walk goes on with its next entry
CSend(c) ==
    /\ callers[c].pc = "send"
    /\ \E outcome \in ConcOutcomes :
          LET me   == callers[c]
              data == ~me.dir /\ me.args.data
              form == [me.form[1] EXCEPT !.rt = UploadToken(uploadResType)]
              r    == IF ReadFails(me.cur, data, outcome)
                      THEN Result(<<>>, me.cur, "io")
                      ELSE IF simulate THEN Result(<<>>, me.cur, "nil")
                      ELSE uploadSend(form, me.cur, outcome)
              sentBy == [me EXCEPT !.reqs = me.reqs \o r.reqs, !.form = <<>>]
          IN /\ ncalls' = ncalls + Len(r.reqs)
             /\ IF ~me.dir
                THEN SetCaller(c, [sentBy EXCEPT !.pc = "idle",
                                      !.ret = [val |-> r.val, err |-> r.err]])
                ELSE IF r.err # "nil" \/ me.queue = <<>>
                     THEN SetCaller(c, [sentBy EXCEPT !.pc = "idle", !.queue = <<>>,
                                           !.ret = [val |-> me.args.path, err |-> r.err]])
                     ELSE SetCaller(c, [sentBy EXCEPT !.pc = "walk"])
    /\ UNCHANGED <<simulate, keepFilesPattern, uploadResType, basePathDir,
                   prependPath>>
    /\ UNCHANGED seqvars

NextConc ==
    \E c \in Callers :
       \/ CUploadEnter(c)
       \/ CSetBase(c)
       \/ CSetPrepend(c)
       \/ CSetBaseDir(c)
       \/ CWalk(c)
       \/ CForm(c)
       \/ CSend(c)

SpecConc == Init /\ [][NextConc]_vars

------------------------------------------------------------------------------
\* Properties

\* the last Upload ran in directory mode / in single-resource mode
DirMode == op.name = "Upload" /\ ~op.data /\ Stat(op.path) = "dir"
SingleMode == op.name = "Upload" /\ (op.data \/ Stat(op.path) = "file")

\* the regular files of the tree below root
FilesUnder(root) == {f \in Files : HasPrefix(f, Abs(root) \o <<PathSeparator>>)}

\* the final element of a path, and a name without its extension
BaseName(path) == Slice(path, LastIndex(path, PathSeparator) + 1, Len(path))
StripExt(name) == Slice(name, 0, Len(name) - Len(Ext(name)))

\* the prepend namespace, normalised: no leading separator, one trailing slash
NormalizedPrepend(prepend) == PrependAndStrip(prepend, Empty)

\* the canonical string a verifier rebuilds from the fields of a request
Canonical(req) ==
    IF req.kind = "rename"
    THEN <<"from_public_id=">> \o req.from_public_id \o <<"&">>
         \o <<"timestamp=">> \o req.timestamp \o <<"&">>
         \o <<"to_public_id=">> \o req.to_public_id \o ApiSecret
    ELSE IF req.public_id # NoField
         THEN <<"public_id=">> \o req.public_id \o <<"&">>
              \o <<"timestamp=">> \o req.timestamp \o ApiSecret
         ELSE <<"timestamp=">> \o req.timestamp \o ApiSecret

\* C1: a Delete whose identifier prepend+publicId matches the configured
\* keep pattern returns nil and hands no request to the transport, for
\* every resource type and either value of simulate.
C1_KeepPatternProtectsDelete ==
    (/\ op.name = "Delete"
     /\ keepFilesPattern # NoPattern
     /\ MatchString(keepFilesPattern, op.prepend \o op.publicId))
    => (ret.err = "nil" /\ sent = <<>>)

C1_Witness ==
    /\ op.name = "Delete"
    /\ keepFilesPattern = PatAnchored
    /\ MatchString(keepFilesPattern, op.prepend \o op.publicId)
    /\ ~simulate
    /\ op.rtype = RawType
    /\ ret.err = "nil"
    /\ sent = <<>>

\* C2: while simulate is on, no step of an Upload (single resource or
\* directory walk) and no Delete hands a request to the transport.
C2_SimulateNoTransport ==
    [][(simulate /\ op'.name \in {"Upload", "Delete"})
          => (ncalls' = ncalls /\ sent' = <<>>)]_vars

C2_Witness ==
    /\ simulate
    /\ DirMode
    /\ pc = "idle"
    /\ Len(invoked) = Cardinality(FilesUnder(op.path))
    /\ ret.err = "nil"
    /\ sent = <<>>
    /\ ncalls = 0

\* C3: with simulate on and randomPublicId false, a successful
\* single-resource Upload returns the locally derived public identifier.
C3_SimulateReturnsDerivedId ==
    (simulate /\ SingleMode /\ ~op.random /\ pc = "idle" /\ ret.err = "nil")
    => ret.val = CleanExtensionNameWithPrepend(op.path, op.prepend)

\* C4: the public_id Upload sends keeps the file's extension for Raw and
\* has it stripped for Image, Pdf and Video.
C4_RawKeepsExtension ==
    \A i \in 1..Len(sent) :
       (sent[i].kind = "upload" /\ sent[i].public_id # NoField)
       => LET name == BaseName(Abs(sent[i].file))
          IN IF op.rtype = RawType
             THEN HasSuffix(sent[i].public_id, name)
             ELSE /\ HasSuffix(sent[i].public_id, StripExt(name))
                  /\ Ext(name) # Empty => ~HasSuffix(sent[i].public_id, name)

\* C5: in single-resource mode with randomPublicId false the public_id is
\* the normalised prepend followed by the last two segments of the absolute
\* path (parent directory name and file name), whatever is done with the
\* extension.
C5_LastTwoSegments ==
    (SingleMode /\ ~op.random)
    => \A i \in 1..Len(sent) :
          LET lastTwo == setPublicID(op.prepend, Abs(sent[i].file))
              body    == NormalizedPrepend(op.prepend) \o StripExt(lastTwo)
          IN sent[i].public_id \in {body, body \o Ext(lastTwo)}

\* C6: in directory mode every file is sent under the identifier of the
\* base-directory rule with the uploaded root as basePath, and two files
\* of the tree never get the same public_id.
C6_DirectoryIdsFromBasePath ==
    DirMode
    => /\ \A i \in 1..Len(sent) :
             sent[i].public_id = cleanAssetName(sent[i].file, op.path, op.prepend)
       /\ \A i, j \in 1..Len(sent) :
             sent[i].file # sent[j].file => sent[i].public_id # sent[j].public_id

\* C7: a directory-mode Upload never invokes the per-file upload for a
\* directory nor twice for one file, and when nothing failed it has invoked
\* it exactly once for each regular file of the tree.
C7_WalkUploadsEachFileOnce ==
    DirMode
    => /\ \A i \in 1..Len(invoked) : Stat(invoked[i]) = "file"
       /\ \A i, j \in 1..Len(invoked) : invoked[i] = invoked[j] => i = j
       /\ (pc = "idle" /\ faults = <<>>)
          => /\ {Abs(invoked[i]) : i \in 1..Len(invoked)} = FilesUnder(op.path)
             /\ Len(invoked) = Cardinality(FilesUnder(op.path))

C7_Witness ==
    /\ DirMode
    /\ pc = "idle"
    /\ faults = <<>>
    /\ ~simulate
    /\ Len(invoked) = 3
    /\ Len(sent) = 3
    /\ ret.err = "nil"

\* C8: in a directory-mode Upload the first failure, of a per-file upload
\* or of listing a directory, ends the traversal and is the error Upload
\* returns.
C8_WalkStopsAtFirstError ==
    (DirMode /\ faults # <<>>)
    => /\ pc = "idle"
       /\ ret.err = faults[1].err
       /\ Len(faults) = 1

\* C9: with simulate on, Rename hands no request to the transport.
C9_SimulateSuppressesRename ==
    (simulate /\ op.name = "Rename") => sent = <<>>

\* C10: the signature of every request is the digest of the canonical
\* string rebuilt from the fields transmitted in that request and the
\* secret.
C10_SignatureMatchesFields ==
    \A i \in 1..Len(sent) : sent[i].signature = Sha1Hex(Canonical(sent[i]))


\* C11: when Upload calls are interleaved on one client, every request of a
\* call has the public_id derived from that call's own prepend and goes to
\* the endpoint of that call's own resource type.
C11_RequestsUseOwnArguments ==
    \A c \in Callers :
       \A i \in 1..Len(callers[c].reqs) :
          LET req == callers[c].reqs[i]
              a   == callers[c].args
          IN /\ req.public_id # NoField
                => req.public_id = CleanExtensionNameWithPrepend(req.file, a.prepend)
             /\ req.rt = UploadToken(a.rtype)

====
